---- MODULE Spec2Model ----
(***************************************************************************)
(* Model of config.py of the podcast script generator: the normalisation   *)
(* of PODCAST_DURATION_MINUTES at import, calculate_section_allocation,    *)
(* and the construction of PODCAST_CONFIG.                                 *)
(*                                                                         *)
(* The section weights are Python floats.  They are modelled as IEEE-754   *)
(* binary64 values (sign, 53-bit significand, exponent) with correctly     *)
(* rounded (round-half-to-even) conversion, multiplication and division,   *)
(* so that int(total_seconds * weight) is computed as the interpreter      *)
(* computes it and not as exact rational arithmetic.                       *)
(***************************************************************************)
EXTENDS Integers, Sequences, FiniteSets, TLC

VARIABLES environ, pc, PODCAST_DURATION_MINUTES, BASE_SECTION_WEIGHTS,
          PODCAST_CONFIG, heap, calls

vars == <<environ, pc, PODCAST_DURATION_MINUTES, BASE_SECTION_WEIGHTS,
          PODCAST_CONFIG, heap, calls>>

(***************************************************************************)
(* Bit-sequence helpers.  Bit sequences are most-significant-bit first.    *)
(* The digit-by-digit loops are evaluated by splitting their index range   *)
(* in halves, so the steps run in the same order with a shallow recursion; *)
(* the test of the loop invariant (carry >= 0, remainder < n) between the  *)
(* halves makes the evaluator finish the first half before the second.     *)
(***************************************************************************)
Abs(n) == IF n < 0 THEN -n ELSE n

Sign(n) == IF n < 0 THEN -1 ELSE IF n = 0 THEN 0 ELSE 1

Zeros(k) == [i \in 1..k |-> 0]

RECURSIVE IntBits(_)
\* binary digits of a non-negative integer, no leading zeros (<<>> for 0)
IntBits(k) == IF k = 0 THEN <<>> ELSE IntBits(k \div 2) \o <<k % 2>>

RECURSIVE BitsToInt(_)
BitsToInt(bits) ==
    IF bits = <<>> THEN 0
    ELSE 2 * BitsToInt(SubSeq(bits, 1, Len(bits) - 1)) + bits[Len(bits)]

StripZeros(bits) ==
    IF \A i \in 1..Len(bits) : bits[i] = 0 THEN <<>>
    ELSE LET first == CHOOSE i \in 1..Len(bits) :
                          bits[i] = 1 /\ \A j \in 1..(i - 1) : bits[j] = 0
         IN  SubSeq(bits, first, Len(bits))

\* bits + 1; one bit longer when every bit was 1
Incr(bits) ==
    IF \A i \in 1..Len(bits) : bits[i] = 1 THEN <<1>> \o Zeros(Len(bits))
    ELSE LET last == CHOOSE i \in 1..Len(bits) :
                         bits[i] = 0 /\ \A j \in (i + 1)..Len(bits) : bits[j] = 1
         IN  SubSeq(bits, 1, last - 1) \o <<1>> \o Zeros(Len(bits) - last)

\* one digit of bits * n: st.c is the carry, st.out the digits produced
MulStep(bits, n, st, i) ==
    LET t == bits[i] * n + st.c
    IN  [c |-> t \div 2, out |-> <<t % 2>> \o st.out]

RECURSIVE MulRange(_, _, _, _, _)
\* MulStep for the digits hi, hi-1, .., lo
MulRange(bits, n, st, lo, hi) ==
    IF lo > hi THEN st
    ELSE IF lo = hi THEN MulStep(bits, n, st, lo)
    ELSE LET mid == (lo + hi) \div 2
             high == MulRange(bits, n, st, mid + 1, hi)
         IN  IF high.c >= 0 THEN MulRange(bits, n, high, lo, mid) ELSE high

\* bits * n + carry, without leading zeros
MulBits(bits, n, carry) ==
    LET st == MulRange(bits, n, [c |-> carry, out |-> <<>>], 1, Len(bits))
    IN  IntBits(st.c) \o st.out

\* one digit of the long division by n: st.r is the running remainder
DivStep(bits, n, st, i) ==
    LET t == 2 * st.r + bits[i]
    IN  [r |-> t % n, out |-> Append(st.out, t \div n)]

RECURSIVE DivRange(_, _, _, _, _)
\* DivStep for the digits lo, lo+1, .., hi
DivRange(bits, n, st, lo, hi) ==
    IF lo > hi THEN st
    ELSE IF lo = hi THEN DivStep(bits, n, st, lo)
    ELSE LET mid == (lo + hi) \div 2
             low == DivRange(bits, n, st, lo, mid)
         IN  IF low.r < n THEN DivRange(bits, n, low, mid + 1, hi) ELSE low

\* quotient digits (out) and remainder (r) of bits divided by n
LongDiv(bits, n) == DivRange(bits, n, [r |-> 0, out |-> <<>>], 1, Len(bits))

RECURSIVE LeadingZeros(_, _)
\* number of zero bits after the binary point of r/d before the first one bit
LeadingZeros(r, d) == IF 2 * r >= d THEN 0 ELSE 1 + LeadingZeros(2 * r, d)

\* the next bit after the binary point of st.r/d
FracStep(d, st) ==
    LET b == IF 2 * st.r >= d THEN 1 ELSE 0
    IN  [r |-> 2 * st.r - b * d, out |-> Append(st.out, b)]

RECURSIVE FracRange(_, _, _)
\* k times FracStep
FracRange(d, st, k) ==
    IF k = 0 THEN st
    ELSE IF k = 1 THEN FracStep(d, st)
    ELSE LET half == FracRange(d, st, k \div 2)
         IN  IF half.r < d THEN FracRange(d, half, k - (k \div 2)) ELSE half

\* the first k bits after the binary point of r/d (out) and what is left (r)
FracBits(r, d, k) == FracRange(d, [r |-> r, out |-> <<>>], k)

RECURSIVE Pow2(_)
Pow2(k) == IF k = 0 THEN 1 ELSE 2 * Pow2(k - 1)

(***************************************************************************)
(* binary64 values: s is the sign (-1, 0, 1), m the 53-bit significand     *)
(* (first bit 1) and e the exponent of its last bit: s * m * 2^e.          *)
(***************************************************************************)
Precision == 53

FloatZero == [s |-> 0, m |-> <<>>, e |-> 0]

\* round-half-to-even of the magnitude bits * 2^e (first bit 1) to Precision
\* bits; sticky says that non-zero digits were already dropped after bits
RoundNearestEven(s, bits, e, sticky) ==
    IF Len(bits) <= Precision
    THEN [s |-> s, m |-> bits \o Zeros(Precision - Len(bits)),
          e |-> e - (Precision - Len(bits))]
    ELSE LET keep   == SubSeq(bits, 1, Precision)
             guard  == bits[Precision + 1]
             rest   == SubSeq(bits, Precision + 2, Len(bits))
             lost   == sticky \/ (\E i \in 1..Len(rest) : rest[i] = 1)
             up     == guard = 1 /\ (lost \/ keep[Precision] = 1)
             e2     == e + (Len(bits) - Precision)
             inc    == Incr(keep)
         IN  IF ~up THEN [s |-> s, m |-> keep, e |-> e2]
             ELSE IF Len(inc) > Precision
                  THEN [s |-> s, m |-> SubSeq(inc, 1, Precision), e |-> e2 + 1]
                  ELSE [s |-> s, m |-> inc, e |-> e2]

\* the float denoted by the decimal literal n/d, 0 < n < d (0.05 is 5/100)
FloatLiteral(n, d) ==
    LET z    == LeadingZeros(n, d)
        r0   == n * Pow2(z)
        frac == FracBits(r0, d, Precision + 2)
    IN  RoundNearestEven(1, frac.out, -(z + Precision + 2), frac.r # 0)

\* n * x for a Python int n and a float x
FloatMulInt(n, x) ==
    IF n = 0 \/ x.s = 0 THEN FloatZero
    ELSE RoundNearestEven(Sign(n) * x.s, MulBits(x.m, Abs(n), 0), x.e, FALSE)

\* x / n for a float x and a positive Python int n
FloatDivInt(x, n) ==
    IF x.s = 0 THEN FloatZero
    ELSE LET k   == Len(IntBits(n)) + 2
             quo == LongDiv(x.m \o Zeros(k), n)
         IN  RoundNearestEven(x.s, StripZeros(quo.out), x.e - k, quo.r # 0)

\* mutation: round(x) (half away from zero) where the code has int(x)
FloatToInt_Round(x) ==
    IF x.s = 0 THEN 0
    ELSE IF x.e >= 0 THEN x.s * BitsToInt(x.m \o Zeros(x.e))
    ELSE IF Len(x.m) + x.e < 0 THEN 0
    ELSE x.s * (BitsToInt(SubSeq(x.m, 1, Len(x.m) + x.e))
                + x.m[Len(x.m) + x.e + 1])

\* int(x): truncation toward zero
FloatToInt(x) ==
    IF x.s = 0 THEN 0
    ELSE IF x.e >= 0 THEN x.s * BitsToInt(x.m \o Zeros(x.e))
    ELSE IF Len(x.m) + x.e <= 0 THEN 0
    ELSE x.s * BitsToInt(SubSeq(x.m, 1, Len(x.m) + x.e))

(***************************************************************************)
(* The process environment and int(os.getenv(..)).  A value is a sequence  *)
(* of characters; only the values int() accepts are drawn (an optional     *)
(* minus sign and decimal digits).                                         *)
(***************************************************************************)
MaxDigits == 3

DigitChars == {"0", "1", "2", "3", "4", "5", "6", "7", "8", "9"}

DigitValue(c) ==
    CASE c = "0" -> 0 [] c = "1" -> 1 [] c = "2" -> 2 [] c = "3" -> 3
      [] c = "4" -> 4 [] c = "5" -> 5 [] c = "6" -> 6 [] c = "7" -> 7
      [] c = "8" -> 8 [] c = "9" -> 9

DigitStrings == UNION {[1..n -> DigitChars] : n \in 1..MaxDigits}

IntStrings == DigitStrings \cup {<<"-">> \o ds : ds \in DigitStrings}

Environments ==
    {[v \in {} |-> <<>>]} \cup
    {[v \in {"PODCAST_DURATION_MINUTES"} |-> str] : str \in IntStrings}

\* os.getenv(name, default)
getenv(env, name, default) ==
    IF name \in DOMAIN env THEN env[name] ELSE default

RECURSIVE ParseDigits(_)
ParseDigits(str) ==
    IF str = <<>> THEN 0
    ELSE 10 * ParseDigits(SubSeq(str, 1, Len(str) - 1))
         + DigitValue(str[Len(str)])

\* int(str) for a decimal string
ParseInt(str) ==
    IF Head(str) = "-" THEN -ParseDigits(Tail(str)) ELSE ParseDigits(str)

(***************************************************************************)
(* Duration normalisation, config.py lines 28-39.                          *)
(***************************************************************************)
\* mutation: the rounding branch of lines 32-39 is missing
NormalizeDuration_NoRounding(d) ==
    IF d < 15 THEN 15
    ELSE IF d > 45 THEN 45
    ELSE d

\* mutation: the first midpoint test is <= 22
NormalizeDuration_InclusiveMidpoint(d) ==
    IF d < 15 THEN 15
    ELSE IF d > 45 THEN 45
    ELSE IF d \notin {15, 30, 45}
         THEN IF d <= 22 THEN 15
              ELSE IF d < 37 THEN 30
              ELSE 45
    ELSE d

NormalizeDuration(d) ==
    IF d < 15 THEN 15
    ELSE IF d > 45 THEN 45
    ELSE IF d \notin {15, 30, 45}
         THEN IF d < 22 THEN 15
              ELSE IF d < 37 THEN 30
              ELSE 45
    ELSE d

(***************************************************************************)
(* BASE_SECTION_WEIGHTS, config.py lines 42-51.                            *)
(***************************************************************************)
SectionWeightLiterals ==
    [intro              |-> FloatLiteral(5, 100),
     main_stories       |-> FloatLiteral(65, 100),
     tech_spotlight     |-> FloatLiteral(15, 100),
     listener_questions |-> FloatLiteral(8, 100),
     deep_dive          |-> FloatLiteral(10, 100),
     expert_interview   |-> FloatLiteral(10, 100),
     outro              |-> FloatLiteral(5, 100),
     transitions        |-> FloatLiteral(7, 100)]

(***************************************************************************)
(* calculate_section_allocation, config.py lines 54-133.  weights is the   *)
(* module global BASE_SECTION_WEIGHTS the function reads.                  *)
(***************************************************************************)
\* lines 68-75
NumMainStories(duration_minutes) ==
    IF duration_minutes = 15 THEN 2
    ELSE IF duration_minutes = 30 THEN 3
    ELSE 4

\* mutation: the weight is divided by one story too many
MainStoryWeight_ExtraStory(weights, num_main_stories) ==
    FloatDivInt(weights["main_stories"], num_main_stories + 1)

\* line 107
MainStoryWeight(weights, num_main_stories) ==
    FloatDivInt(weights["main_stories"], num_main_stories)

\* mutation: range(num_main_stories)
StoryRange_FromZero(num_main_stories) == 0..(num_main_stories - 1)

\* range(1, num_main_stories + 1), line 111
StoryRange(num_main_stories) == 1..num_main_stories

\* f"main_story_{i}", line 112
MainStoryKey(i) == "main_story_" \o ToString(i)

\* mutation: the word budget is taken from total_seconds
ContentSection_WordsFromSeconds(weight, total_seconds, target_word_count) ==
    [duration_seconds  |-> FloatToInt(FloatMulInt(total_seconds, weight)),
     weight            |-> weight,
     word_count_target |-> FloatToInt(FloatMulInt(total_seconds, weight))]

\* a section with a word budget, as lines 79-83
ContentSection(weight, total_seconds, target_word_count) ==
    [duration_seconds  |-> FloatToInt(FloatMulInt(total_seconds, weight)),
     weight            |-> weight,
     word_count_target |-> FloatToInt(FloatMulInt(target_word_count, weight))]

\* mutation: transitions is given a word budget like the other sections
TransitionsSection_WithWords(weight, total_seconds) ==
    [duration_seconds  |-> FloatToInt(FloatMulInt(total_seconds, weight)),
     weight            |-> weight,
     word_count_target |-> FloatToInt(FloatMulInt(total_seconds, weight))]

\* lines 100-103
TransitionsSection(weight, total_seconds) ==
    [duration_seconds |-> FloatToInt(FloatMulInt(total_seconds, weight)),
     weight           |-> weight]

calculate_section_allocation(weights, duration_minutes) ==
    LET total_seconds     == duration_minutes * 60
        words_per_minute  == 150
        target_word_count == duration_minutes * words_per_minute
        num_main_stories  == NumMainStories(duration_minutes)
        Content(name)     == ContentSection(weights[name], total_seconds,
                                            target_word_count)
        sections ==
            [intro              |-> Content("intro"),
             outro              |-> Content("outro"),
             tech_spotlight     |-> Content("tech_spotlight"),
             listener_questions |-> [enabled |-> TRUE]
                                    @@ Content("listener_questions"),
             transitions        |-> TransitionsSection(weights["transitions"],
                                                       total_seconds)]
        main_story_weight == MainStoryWeight(weights, num_main_stories)
        main_story        == ContentSection(main_story_weight, total_seconds,
                                            target_word_count)
        main_stories ==
            [k \in {MainStoryKey(i) : i \in StoryRange(num_main_stories)} |->
                main_story]
        optional ==
            [deep_dive        |-> [enabled |-> FALSE] @@ Content("deep_dive"),
             expert_interview |-> [enabled |-> FALSE] @@ Content("expert_interview")]
    IN  \* later assignments to sections[key] take precedence
        optional @@ main_stories @@ sections

(***************************************************************************)
(* State.  environ is the process environment; pc is the position of the   *)
(* import of config.py ("ready" once the module is loaded).  Dictionaries  *)
(* returned by calculate_section_allocation are objects: heap maps an      *)
(* object id to the dictionary's current contents, PODCAST_CONFIG and the  *)
(* callers hold ids.  calls records, for each plan a caller still holds,   *)
(* the argument, the object id and the contents at the time of return.     *)
(* The title, the optional_sections flags and the static tables after      *)
(* PODCAST_CONFIG take no part in the allocation and are left out.         *)
(*                                                                         *)
(* Three specifications share the actions: SpecImport follows the import   *)
(* for every environment value, Spec the callers of a module imported with *)
(* the default duration, SpecCallers direct calls after an import with a   *)
(* few chosen environment values.                                          *)
(***************************************************************************)
MaxCalls == 2

CallArgs == {-1, 15, 21, 30, 37, 45, 100}

ToggledSections == {"deep_dive"}

EmptyDict == [k \in {} |-> 0]

ConfigPlanId == 0

Unbound ==
    /\ pc = "import"
    /\ PODCAST_DURATION_MINUTES = 0
    /\ BASE_SECTION_WEIGHTS = EmptyDict
    /\ PODCAST_CONFIG = EmptyDict
    /\ heap = EmptyDict
    /\ calls = <<>>

\* the module is imported in a process with an empty environment
Init == environ = EmptyDict /\ Unbound

\* the module is imported with PODCAST_DURATION_MINUTES unset or set
InitEnv == environ \in Environments /\ Unbound

\* the environments of the processes whose callers are followed after import
CallerEnvironments ==
    {EmptyDict} \cup
    {[v \in {"PODCAST_DURATION_MINUTES"} |-> str] :
        str \in {<<"-", "7">>, <<"5">>, <<"2", "1">>, <<"2", "2">>, <<"3", "6">>,
                 <<"3", "7">>, <<"1", "0", "0">>}}

InitCallers == environ \in CallerEnvironments /\ Unbound

\* line 26
ReadDuration ==
    /\ pc = "import"
    /\ pc' = "clamp"
    /\ PODCAST_DURATION_MINUTES' =
           ParseInt(getenv(environ, "PODCAST_DURATION_MINUTES", <<"3", "0">>))
    /\ UNCHANGED <<environ, BASE_SECTION_WEIGHTS, PODCAST_CONFIG, heap, calls>>

\* mutation: the normalisation of lines 28-39 is skipped
ClampDuration_Skipped ==
    /\ pc = "clamp"
    /\ pc' = "weights"
    /\ UNCHANGED <<environ, PODCAST_DURATION_MINUTES, BASE_SECTION_WEIGHTS,
                   PODCAST_CONFIG, heap, calls>>

\* lines 28-39
ClampDuration ==
    /\ pc = "clamp"
    /\ pc' = "weights"
    /\ PODCAST_DURATION_MINUTES' = NormalizeDuration(PODCAST_DURATION_MINUTES)
    /\ UNCHANGED <<environ, BASE_SECTION_WEIGHTS, PODCAST_CONFIG, heap, calls>>

\* lines 42-51
DefineWeights ==
    /\ pc = "weights"
    /\ pc' = "config"
    /\ BASE_SECTION_WEIGHTS' = SectionWeightLiterals
    /\ UNCHANGED <<environ, PODCAST_DURATION_MINUTES, PODCAST_CONFIG, heap, calls>>

\* lines 136-146
BuildConfig ==
    /\ pc = "config"
    /\ pc' = "ready"
    /\ heap' = (ConfigPlanId :>
                  calculate_section_allocation(BASE_SECTION_WEIGHTS,
                                               PODCAST_DURATION_MINUTES))
    /\ PODCAST_CONFIG' =
           [duration_minutes  |-> PODCAST_DURATION_MINUTES,
            target_word_count |-> PODCAST_DURATION_MINUTES * 150,
            sections          |-> ConfigPlanId,
            \* line 141 repeats the expression of lines 70-75
            num_main_stories  |-> IF PODCAST_DURATION_MINUTES = 15 THEN 2
                                  ELSE IF PODCAST_DURATION_MINUTES = 30 THEN 3
                                  ELSE 4]
    /\ UNCHANGED <<environ, PODCAST_DURATION_MINUTES, BASE_SECTION_WEIGHTS, calls>>

FreshId == CHOOSE id \in 1..(MaxCalls + 1) : id \notin DOMAIN heap

\* mutation: the function caches its result per argument and hands out the
\* cached dictionary again
CallAllocation_Cached(d) ==
    /\ pc = "ready"
    /\ Len(calls) < MaxCalls
    /\ IF \E i \in 1..Len(calls) : calls[i].arg = d
       THEN LET i == CHOOSE i \in 1..Len(calls) : calls[i].arg = d
            IN  /\ heap' = heap
                /\ calls' = Append(calls, [arg |-> d, ref |-> calls[i].ref,
                                           returned |-> heap[calls[i].ref]])
       ELSE LET id == FreshId
            IN  /\ heap' = (id :> calculate_section_allocation(BASE_SECTION_WEIGHTS, d))
                           @@ heap
                /\ calls' = Append(calls, [arg |-> d, ref |-> id,
                                           returned |-> heap'[id]])
    /\ UNCHANGED <<environ, pc, PODCAST_DURATION_MINUTES, BASE_SECTION_WEIGHTS,
                   PODCAST_CONFIG>>

\* a caller calls calculate_section_allocation(d) and keeps the result
CallAllocation(d) ==
    /\ pc = "ready"
    /\ Len(calls) < MaxCalls
    /\ LET id == FreshId
       IN  /\ heap' = (id :> calculate_section_allocation(BASE_SECTION_WEIGHTS, d))
                      @@ heap
           /\ calls' = Append(calls, [arg |-> d, ref |-> id, returned |-> heap'[id]])
    /\ UNCHANGED <<environ, pc, PODCAST_DURATION_MINUTES, BASE_SECTION_WEIGHTS,
                   PODCAST_CONFIG>>

\* a caller overrides the enabled flag of an optional section in a plan it
\* holds (PODCAST_CONFIG["sections"] or a returned plan)
CallerEnablesSection(id, name) ==
    /\ pc = "ready"
    /\ id \in DOMAIN heap
    /\ ~heap[id][name].enabled
    /\ heap' = [heap EXCEPT ![id][name].enabled = TRUE]
    /\ UNCHANGED <<environ, pc, PODCAST_DURATION_MINUTES, BASE_SECTION_WEIGHTS,
                   PODCAST_CONFIG, calls>>

\* a caller drops the plan it obtained last; the dictionary is collected
CallerDropsPlan ==
    /\ pc = "ready"
    /\ calls # <<>>
    /\ calls' = SubSeq(calls, 1, Len(calls) - 1)
    /\ heap' = [id \in DOMAIN heap \ {calls[Len(calls)].ref} |-> heap[id]]
    /\ UNCHANGED <<environ, pc, PODCAST_DURATION_MINUTES, BASE_SECTION_WEIGHTS,
                   PODCAST_CONFIG>>

NextImport ==
    \/ ReadDuration
    \/ ClampDuration
    \/ DefineWeights
    \/ BuildConfig

\* import followed by callers that call the function and drop the results
NextCallers ==
    \/ ReadDuration
    \/ ClampDuration
    \/ DefineWeights
    \/ BuildConfig
    \/ \E d \in CallArgs : CallAllocation(d)
    \/ CallerDropsPlan

Next ==
    \/ ReadDuration
    \/ ClampDuration
    \/ DefineWeights
    \/ BuildConfig
    \/ \E d \in CallArgs : CallAllocation(d)
    \/ \E id \in DOMAIN heap, name \in ToggledSections : CallerEnablesSection(id, name)
    \/ CallerDropsPlan

Spec == Init /\ [][Next]_vars

SpecImport == InitEnv /\ [][NextImport]_vars

SpecCallers == InitCallers /\ [][NextCallers]_vars

(***************************************************************************)
(* Vocabulary of the properties.                                           *)
(***************************************************************************)
Tiers == {15, 30, 45}

\* the integer the environment asks for (30 when the variable is unset)
Requested ==
    ParseInt(getenv(environ, "PODCAST_DURATION_MINUTES", <<"3", "0">>))

Normalized == pc \in {"weights", "config", "ready"}

EnvIs(str) == environ = [v \in {"PODCAST_DURATION_MINUTES"} |-> str]

\* the tier of a requested duration, by the midpoints 22 and 37 alone
TierOf(d) == IF d < 22 THEN 15 ELSE IF d < 37 THEN 30 ELSE 45

Distance(a, b) == IF a < b THEN b - a ELSE a - b

FixedSections ==
    {"intro", "outro", "tech_spotlight", "listener_questions", "deep_dive",
     "expert_interview", "transitions"}

\* the weights in hundredths, as exact rationals
WeightPercent ==
    [intro |-> 5, outro |-> 5, tech_spotlight |-> 15, listener_questions |-> 8,
     deep_dive |-> 10, expert_interview |-> 10, transitions |-> 7]

MainStoriesPercent == 65

StoryCount(D) == CASE D = 15 -> 2 [] D = 30 -> 3 [] D = 45 -> 4

StoryKeys(plan) == DOMAIN plan \ FixedSections

NumberedStoryKeys(n) ==
    {<<"main_story_1", "main_story_2", "main_story_3", "main_story_4">>[i] :
        i \in 1..n}

\* a plan without the enabled flags, which callers may override
Budgets(plan) ==
    [k \in DOMAIN plan |->
        [f \in DOMAIN plan[k] \ {"enabled"} |-> plan[k][f]]]

\* the calls whose argument is a tier
TierCalls == {i \in 1..Len(calls) : calls[i].arg \in Tiers}

RECURSIVE SumDurations(_, _)
SumDurations(plan, keys) ==
    IF keys = {} THEN 0
    ELSE LET k == CHOOSE x \in keys : TRUE
         IN  plan[k].duration_seconds + SumDurations(plan, keys \ {k})

\* x + y for floats of the same sign (0 + x is x)
FloatAdd(x, y) ==
    IF x.s = 0 THEN y
    ELSE IF y.s = 0 THEN x
    ELSE LET lo  == IF x.e <= y.e THEN x ELSE y
             hi  == IF x.e <= y.e THEN y ELSE x
             a   == hi.m \o Zeros(hi.e - lo.e)
             b   == Zeros(Len(a) - Len(lo.m)) \o lo.m
             \* a + b digit by digit: a[i] + b[i] is a[i] * 1 + b[i]
             sum == [i \in 1..Len(a) |-> a[i] + b[i]]
         IN  RoundNearestEven(x.s, MulBits(sum, 1, 0), lo.e, FALSE)

RECURSIVE SumWeights(_, _)
\* the float sum of the weight fields, added one after the other from 0
SumWeights(plan, keys) ==
    IF keys = {} THEN FloatZero
    ELSE LET k == CHOOSE x \in keys : TRUE
         IN  FloatAdd(SumWeights(plan, keys \ {k}), plan[k].weight)

(***************************************************************************)
(* C1: after the normalisation step PODCAST_DURATION_MINUTES is one of     *)
(* 15, 30 and 45, whatever integer the environment supplied.               *)
(***************************************************************************)
C1_DurationIsTier == Normalized => PODCAST_DURATION_MINUTES \in {15, 30, 45}

C1_Witness ==
    /\ EnvIs(<<"-", "7">>)
    /\ pc = "weights"
    /\ PODCAST_DURATION_MINUTES = 15

C3_NearestTier ==
    (Normalized /\ Requested \in (15..45) \ Tiers) =>
        \A t \in Tiers :
            Distance(Requested, PODCAST_DURATION_MINUTES) <= Distance(Requested, t)

(***************************************************************************)
(* C4, as stated: the plan calculate_section_allocation returns for any    *)
(* integer argument is the plan of the argument's normalised tier.         *)
(***************************************************************************)
C4_AllocatorNormalizes ==
    \A i \in 1..Len(calls) :
        calls[i].returned =
            calculate_section_allocation(BASE_SECTION_WEIGHTS, TierOf(calls[i].arg))

(***************************************************************************)
(* C4, amended: for every integer in the environment the plan built into   *)
(* PODCAST_CONFIG at import is the plan of the normalised tier D, every    *)
(* duration_seconds and word_count_target computed from D (the enabled     *)
(* flags are the callers' to override).                                    *)
(***************************************************************************)
C4_ConfigPlanIsTierPlan ==
    pc = "ready" =>
        LET D    == TierOf(Requested)
            plan == heap[PODCAST_CONFIG.sections]
        IN  /\ PODCAST_CONFIG.duration_minutes = D
            /\ PODCAST_CONFIG.target_word_count = D * 150
            /\ PODCAST_CONFIG.num_main_stories = StoryCount(D)
            /\ Budgets(plan) =
                   Budgets(calculate_section_allocation(BASE_SECTION_WEIGHTS, D))
            /\ StoryKeys(plan) = NumberedStoryKeys(StoryCount(D))
            /\ \A name \in FixedSections :
                   plan[name].duration_seconds = (D * 60 * WeightPercent[name]) \div 100
            /\ \A name \in FixedSections \ {"transitions"} :
                   plan[name].word_count_target = (D * 150 * WeightPercent[name]) \div 100

C4_Witness ==
    /\ EnvIs(<<"2", "1">>)
    /\ pc = "ready"
    /\ PODCAST_CONFIG.duration_minutes = 15
    /\ heap[PODCAST_CONFIG.sections]["intro"].duration_seconds = 45

(***************************************************************************)
(* C5: the plan of a tier has exactly the keys main_story_1 .. main_story_N *)
(* besides the fixed sections, N = 2, 3, 4 for 15, 30, 45, and the N       *)
(* entries are identical.                                                  *)
(***************************************************************************)
C5_MainStoryKeys ==
    \A i \in TierCalls :
        LET plan == calls[i].returned
            N    == StoryCount(calls[i].arg)
        IN  /\ StoryKeys(plan) = NumberedStoryKeys(N)
            /\ Cardinality(StoryKeys(plan)) = N
            /\ "main_story_0" \notin DOMAIN plan
            /\ \A k1, k2 \in StoryKeys(plan) : plan[k1] = plan[k2]
            /\ \A k \in StoryKeys(plan) :
                   DOMAIN plan[k] = {"duration_seconds", "weight", "word_count_target"}

C5_Witness ==
    \E i \in TierCalls :
        /\ calls[i].arg = 45
        /\ "main_story_4" \in DOMAIN calls[i].returned
        /\ "main_story_5" \notin DOMAIN calls[i].returned

(***************************************************************************)
(* C6: in the plan of a tier D every fixed section has duration_seconds =  *)
(* floor(D*60*w) and, where present, word_count_target = floor(D*150*w),   *)
(* and every main story floor(D*60*0.65/N) and floor(D*150*0.65/N), with   *)
(* exact rational weights; for 30, intro is 90 s and main_story_1 390 s.   *)
(***************************************************************************)
C6_ExactFloors ==
    \A i \in TierCalls :
        LET plan == calls[i].returned
            D    == calls[i].arg
            N    == StoryCount(D)
        IN  /\ \A name \in FixedSections :
                   /\ plan[name].duration_seconds =
                          (D * 60 * WeightPercent[name]) \div 100
                   /\ "word_count_target" \in DOMAIN plan[name] =>
                          plan[name].word_count_target =
                              (D * 150 * WeightPercent[name]) \div 100
            /\ \A k \in StoryKeys(plan) :
                   /\ plan[k].duration_seconds =
                          (D * 60 * MainStoriesPercent) \div (100 * N)
                   /\ plan[k].word_count_target =
                          (D * 150 * MainStoriesPercent) \div (100 * N)
            /\ D = 30 => /\ plan["intro"].duration_seconds = 90
                         /\ plan["main_story_1"].duration_seconds = 390

C6_Witness ==
    \E i \in TierCalls :
        /\ calls[i].arg = 45
        /\ calls[i].returned["main_story_1"].duration_seconds = 438
        /\ calls[i].returned["tech_spotlight"].word_count_target = 1012

(***************************************************************************)
(* C7, as stated: the durations of all sections of a tier's plan add up to *)
(* at most total_seconds = D*60.                                           *)
(***************************************************************************)
C7_SumWithinTotal ==
    \A i \in TierCalls :
        SumDurations(calls[i].returned, DOMAIN calls[i].returned)
            <= calls[i].arg * 60

(***************************************************************************)
(* C7, amended: the durations of all sections of a tier's plan add up to   *)
(* more than total_seconds and to at most 1.25 * total_seconds (the        *)
(* weights add up to 1.25), short of it by less than one second per        *)
(* section.                                                                *)
(***************************************************************************)
C7_SumWithinWeightedTotal ==
    \A i \in TierCalls :
        LET plan  == calls[i].returned
            total == calls[i].arg * 60
            sum   == SumDurations(plan, DOMAIN plan)
        IN  /\ sum > total
            /\ 100 * sum <= 125 * total
            /\ 100 * sum > 125 * total - 100 * Cardinality(DOMAIN plan)

C7_Witness ==
    \E i \in TierCalls :
        /\ calls[i].arg = 15
        /\ SumDurations(calls[i].returned, DOMAIN calls[i].returned) = 1124

(***************************************************************************)
(* C8: in the plan of a tier the per-story weight times the number of main *)
(* stories, and the sum of the weight fields of the main stories, equal    *)
(* the main_stories base weight 0.65.                                      *)
(***************************************************************************)
C8_WeightConserved ==
    \A i \in TierCalls :
        LET plan == calls[i].returned
            keys == StoryKeys(plan)
        IN  /\ \A k \in keys :
                   FloatMulInt(Cardinality(keys), plan[k].weight)
                       = BASE_SECTION_WEIGHTS["main_stories"]
            /\ SumWeights(plan, keys) = BASE_SECTION_WEIGHTS["main_stories"]
            /\ BASE_SECTION_WEIGHTS["main_stories"] = FloatLiteral(65, 100)

C8_Witness ==
    \E i \in TierCalls :
        /\ calls[i].arg = 30
        /\ Cardinality(StoryKeys(calls[i].returned)) = 3
        /\ calls[i].returned["main_story_3"].weight # BASE_SECTION_WEIGHTS["main_stories"]

(***************************************************************************)
(* C9: in every returned plan transitions has no word_count_target, every  *)
(* other entry has one, and every entry has duration_seconds and weight.   *)
(***************************************************************************)
C9_WordCountKeys ==
    \A i \in 1..Len(calls) :
        LET plan == calls[i].returned
        IN  /\ FixedSections \subseteq DOMAIN plan
            /\ "word_count_target" \notin DOMAIN plan["transitions"]
            /\ \A k \in DOMAIN plan \ {"transitions"} :
                   "word_count_target" \in DOMAIN plan[k]
            /\ \A k \in DOMAIN plan :
                   {"duration_seconds", "weight"} \subseteq DOMAIN plan[k]

C9_Witness ==
    \E i \in 1..Len(calls) :
        /\ calls[i].arg = 21
        /\ DOMAIN calls[i].returned["transitions"] = {"duration_seconds", "weight"}
        /\ "word_count_target" \in DOMAIN calls[i].returned["main_story_4"]

(***************************************************************************)
(* C10: calls with the same argument return identical plans, whatever      *)
(* calls and caller mutations of earlier plans come in between; every      *)
(* returned plan is a new dictionary, and BASE_SECTION_WEIGHTS keeps the   *)
(* values it was defined with.                                             *)
(***************************************************************************)
C10_Idempotent ==
    /\ \A i, j \in 1..Len(calls) :
           calls[i].arg = calls[j].arg => calls[i].returned = calls[j].returned
    /\ \A i, j \in 1..Len(calls) : i # j => calls[i].ref # calls[j].ref
    /\ \A i \in 1..Len(calls) :
           /\ calls[i].ref \in DOMAIN heap
           /\ pc = "ready" /\ calls[i].ref # PODCAST_CONFIG.sections
    /\ pc = "ready" => BASE_SECTION_WEIGHTS = SectionWeightLiterals

C10_Witness ==
    /\ Len(calls) = 2
    /\ calls[1].arg = calls[2].arg
    /\ heap[calls[1].ref] # calls[1].returned
    /\ heap[calls[2].ref] = calls[2].returned
    /\ heap[PODCAST_CONFIG.sections] # calls[2].returned

====
